---- MODULE Spec2Model ----
(***************************************************************************)
(* A model of proto2json (main.go): the hex normaliser and dynamic decoder *)
(* (parseData, unmarshalProtoData, convertToMap), the record source        *)
(* (ReadData), the two Writers and the coordinator of main with its        *)
(* producer and its receiverNum workers over the bounded channel dataList. *)
(***************************************************************************)
EXTENDS Integers, Sequences, FiniteSets, TLC

(***************************************************************************)
(* Bounds of the model.                                                    *)
(***************************************************************************)
\* the longest input (number of csv rows) the record source is given
MaxRows == 3
\* the largest value of the -recv option
MaxRecv == 2
\* the longest payload text handed to parseData on its own
MaxTextLen == 4
\* the most occurrences of fields in a parsed message given to convertToMap
MaxOccur == 3

(***************************************************************************)
(* encoding/hex as parseData uses it.  A text is a sequence of one-char    *)
(* strings, a byte a number in 0..255.                                     *)
(***************************************************************************)
\* hex.fromHexChar: the digit's value, 255 for a character that is no digit
fromHexChar(c) ==
    CASE c = "0" -> 0  [] c = "1" -> 1  [] c = "2" -> 2  [] c = "3" -> 3
      [] c = "4" -> 4  [] c = "5" -> 5  [] c = "6" -> 6  [] c = "7" -> 7
      [] c = "8" -> 8  [] c = "9" -> 9
      [] c \in {"a", "A"} -> 10 [] c \in {"b", "B"} -> 11
      [] c \in {"c", "C"} -> 12 [] c \in {"d", "D"} -> 13
      [] c \in {"e", "E"} -> 14 [] c \in {"f", "F"} -> 15
      [] OTHER -> 255

\* the loop of hex.Decode over the pairs of src, writing dst[i]; a write past
\* the end of dst is Go's index-out-of-range panic
RECURSIVE hexPairs(_, _, _, _)
hexPairs(dstLen, src, j, acc) ==
    IF j > Len(src) THEN [kind |-> "pairs", bytes |-> acc]
    ELSE LET a == fromHexChar(src[j - 1])
             b == fromHexChar(src[j])
         IN  IF a > 15 \/ b > 15
             THEN [kind |-> "error", pos |-> Len(acc), cause |-> "InvalidByte"]
             ELSE IF Len(acc) >= dstLen
             THEN [kind |-> "panic", cause |-> "index out of range"]
             ELSE hexPairs(dstLen, src, j + 2, Append(acc, a * 16 + b))

\* hex.Decode(dst, src) with len(dst) = dstLen: (n, err) and the bytes of dst
hexDecode(dstLen, src) ==
    LET p == hexPairs(dstLen, src, 2, <<>>)
    IN  IF p.kind # "pairs" THEN p
        ELSE IF Len(src) % 2 = 1
        THEN IF fromHexChar(src[Len(src)]) > 15
             THEN [kind |-> "error", pos |-> Len(p.bytes), cause |-> "InvalidByte"]
             ELSE [kind |-> "error", pos |-> Len(p.bytes), cause |-> "ErrLength"]
        ELSE [kind |-> "ok", pos |-> Len(p.bytes),
              bytes |-> p.bytes \o [k \in 1..(dstLen - Len(p.bytes)) |-> 0]]

(***************************************************************************)
(* The schema container given with -pb and the process-wide registry       *)
(* protoregistry.GlobalFiles.  A field description is its name, number,    *)
(* cardinality and value kind; a message kind names its message type.      *)
(***************************************************************************)
\* the first file of the descriptor set, of syntax proto3: message pkg.M
\* { int32 a = 1; repeated int32 r = 2; M sub = 3; } and enum pkg.E
GoodFile ==
    [ m \in {"pkg.M", "pkg.E"} |->
        IF m = "pkg.E" THEN [kind |-> "enum", fields |-> <<>>]
        ELSE [kind |-> "message",
              fields |-> << [name |-> "a", number |-> 1, isList |-> FALSE,
                             kind |-> "int32", type |-> ""],
                            [name |-> "r", number |-> 2, isList |-> TRUE,
                             kind |-> "int32", type |-> ""],
                            [name |-> "sub", number |-> 3, isList |-> FALSE,
                             kind |-> "message", type |-> "pkg.M"] >> ] ]

\* GlobalFiles before RegisterFile: no descriptor
EmptyFiles == [ m \in {} |-> 0 ]

\* the index in descriptor.Fields() of the field numbered num, 0 for none
fieldByNumber(desc, num) ==
    LET S == { i \in 1..Len(desc.fields) : desc.fields[i].number = num }
    IN  IF S = {} THEN 0 ELSE CHOOSE i \in S : TRUE

(***************************************************************************)
(* proto.Unmarshal into a dynamicpb.Message.  The message is its map of    *)
(* known fields, number -> value: a scalar, a message, or for a repeated   *)
(* field the list of its elements.                                         *)
(***************************************************************************)
\* protowire.ConsumeVarint at position i of bs
RECURSIVE consumeVarint(_, _)
consumeVarint(bs, i) ==
    IF i > Len(bs) THEN [ok |-> FALSE, val |-> 0, next |-> i]
    ELSE IF bs[i] < 128 THEN [ok |-> TRUE, val |-> bs[i], next |-> i + 1]
    ELSE LET rest == consumeVarint(bs, i + 1)
         IN  [ok |-> rest.ok, val |-> (bs[i] - 128) + 128 * rest.val,
              next |-> rest.next]

\* the wire-format loop of proto.Unmarshal: every field of bs from position i
\* on is merged into known.  A scalar of a singular field replaces the value,
\* an element of a repeated field is appended, an embedded message is merged
\* into the one already there, a field the type does not declare is skipped.
RECURSIVE unmarshalFields(_, _, _, _, _)
unmarshalFields(files, desc, bs, i, known) ==
    IF i > Len(bs) THEN [ok |-> TRUE, known |-> known]
    ELSE
    LET tag == consumeVarint(bs, i)
        num == tag.val \div 8
        wt  == tag.val % 8
        fi  == fieldByNumber(desc, num)
        fd  == desc.fields[fi]
        bad == [ok |-> FALSE, known |-> known]
    IN  IF ~tag.ok \/ num = 0 THEN bad
        ELSE IF wt = 0
        THEN LET v == consumeVarint(bs, tag.next)
             IN  IF ~v.ok THEN bad
                 ELSE IF fi # 0 /\ fd.kind = "int32"
                 THEN unmarshalFields(files, desc, bs, v.next,
                        IF fd.isList
                        THEN (num :> Append(IF num \in DOMAIN known
                                            THEN known[num] ELSE <<>>, v.val))
                             @@ known
                        ELSE (num :> v.val) @@ known)
                 ELSE unmarshalFields(files, desc, bs, v.next, known)
        ELSE IF wt = 2
        THEN LET n == consumeVarint(bs, tag.next)
                 body == SubSeq(bs, n.next, n.next + n.val - 1)
             IN  IF ~n.ok \/ n.next + n.val - 1 > Len(bs) THEN bad
                 ELSE IF fi # 0 /\ fd.kind = "message" /\ ~fd.isList
                 THEN LET old == IF num \in DOMAIN known
                                 THEN known[num].known ELSE EmptyFiles
                          sub == unmarshalFields(files, files[fd.type], body,
                                                 1, old)
                      IN  IF ~sub.ok THEN bad
                          ELSE unmarshalFields(files, desc, bs,
                                 n.next + n.val,
                                 (num :> [type |-> fd.type,
                                          known |-> sub.known]) @@ known)
                 ELSE unmarshalFields(files, desc, bs, n.next + n.val, known)
        ELSE IF wt = 1
        THEN IF tag.next + 7 > Len(bs) THEN bad
             ELSE unmarshalFields(files, desc, bs, tag.next + 8, known)
        ELSE IF wt = 5
        THEN IF tag.next + 3 > Len(bs) THEN bad
             ELSE unmarshalFields(files, desc, bs, tag.next + 4, known)
        ELSE bad

\* msg.Has(field) of a dynamicpb.Message: a repeated field is set when its
\* list is not empty, an int32 when it is not zero, a message when populated
Has(msg, field) ==
    /\ field.number \in DOMAIN msg.known
    /\ IF field.isList THEN Len(msg.known[field.number]) > 0
       ELSE IF field.kind = "message" THEN TRUE
       ELSE msg.known[field.number] # 0

\* msg.Get(field) of a populated field
Get(msg, field) == msg.known[field.number]

(***************************************************************************)
(* convertToMap, unmarshalProtoData and parseData.                         *)
(***************************************************************************)
\* protoreflect.Value.Interface(): the native value; of a message field it is
\* the protoreflect.Message itself
Interface(v) == v

\* listValue building its list from the front: the elements come out reversed
listValuePrepend(v) == [ j \in 1..Len(v) |-> Interface(v[Len(v) + 1 - j]) ]

\* the inner loop of convertToMap over a repeated field's list
listValue(v) == [ j \in 1..Len(v) |-> Interface(v[j]) ]

\* the value convertToMap stores for a field that the message has
fieldValue(msg, field) ==
    IF field.isList THEN listValue(Get(msg, field))
    ELSE Interface(Get(msg, field))

\* the loop of convertToMap from field index i on, result so far in result
RECURSIVE convertFields(_, _, _, _)
convertFields(descriptor, msg, i, result) ==
    IF i > Len(descriptor.fields) THEN result
    ELSE LET field == descriptor.fields[i]
         IN  IF ~Has(msg, field)
             THEN convertFields(descriptor, msg, i + 1, result)
             ELSE convertFields(descriptor, msg, i + 1,
                                (field.name :> fieldValue(msg, field)) @@ result)

convertToMap(descriptor, msg) == convertFields(descriptor, msg, 1, EmptyFiles)

\* unmarshalProtoData on the registry files: (map, nil), (nil, err), or the
\* panic of the type assertion when the name is not a message's
unmarshalProtoData(files, data, msgName) ==
    IF msgName \notin DOMAIN files
    THEN [kind |-> "error", cause |-> "NotFound"]
    ELSE IF files[msgName].kind # "message"
    THEN [kind |-> "panic", cause |-> "interface conversion"]
    ELSE LET descriptor == files[msgName]
             m == unmarshalFields(files, descriptor, data, 1, EmptyFiles)
         IN  IF ~m.ok THEN [kind |-> "error", cause |-> "Unmarshal"]
             ELSE [kind |-> "ok",
                   value |-> convertToMap(descriptor,
                                [type |-> msgName, known |-> m.known])]

\* the hex step of parseData (lines 78-90): the marker test, the buffer and
\* hex.Decode.  data[0] of an empty text and data[1] of the text "0" are
\* index-out-of-range panics.
parseDataHex(data) ==
    IF Len(data) = 0 THEN [kind |-> "panic", cause |-> "index out of range"]
    ELSE IF data[1] = "0" /\ Len(data) < 2
    THEN [kind |-> "panic", cause |-> "index out of range"]
    ELSE LET marked == data[1] = "0" /\ data[2] \in {"x", "X"}
             d == IF marked
                  THEN hexDecode(Len(data) \div 2 - 1, SubSeq(data, 3, Len(data)))
                  ELSE hexDecode(Len(data) \div 2, data)
         IN  IF d.kind = "error"
             THEN [kind |-> "error", cause |-> d.cause, pos |-> d.pos,
                   length |-> Len(data), b |-> data[Len(data)]]
             ELSE d

\* parseData keeping quiet about a failure: an empty map instead of the error
parseDataLenient(files, data, msgName) ==
    LET h == parseDataHex(data)
        u == unmarshalProtoData(files, h.bytes, msgName)
    IN  IF h.kind = "ok" /\ u.kind = "ok" THEN u
        ELSE [kind |-> "ok", value |-> EmptyFiles]

parseData(files, data, msgName) ==
    LET h == parseDataHex(data)
    IN  IF h.kind # "ok" THEN h
        ELSE unmarshalProtoData(files, h.bytes, msgName)

(***************************************************************************)
(* The state of one run of main.                                           *)
(***************************************************************************)
VARIABLES
    opt,        \* the options after flag.Parse (lines 187-199)
    input,      \* the csv rows of the file named by -srcfile
    inline,     \* the csv rows of the text given with -data
    status,     \* "running", "panic" (the process died) or "exited"
    fatal,      \* the value the process panicked with
    mainpc,     \* where main is
    io,         \* the files touched so far
    files,      \* protoregistry.GlobalFiles
    regWrites,  \* how many times GlobalFiles was written
    dataList,   \* the buffer of the channel dataList
    closed,     \* whether dataList is closed
    prod,       \* ReadData and the code around it (lines 249-267)
    wk,         \* the receiver goroutines (lines 271-288)
    mutex,      \* FileWriter.mutex: 0 or the worker holding it
    dest,       \* what reached the destination file or the console
    failedWrites, \* the lines for which a write to the file failed
    fnIn,       \* the argument of a function applied on its own
    fnOut       \* its result

vars == <<opt, input, inline, status, fatal, mainpc, io, files, regWrites,
          dataList, closed, prod, wk, mutex, dest, failedWrites, fnIn, fnOut>>

pipeVars == <<opt, input, inline, status, fatal, mainpc, io, files, regWrites,
              dataList, closed, prod, wk, mutex, dest, failedWrites>>

NoValue == EmptyFiles
NoData == [line |-> 0, data |-> EmptyFiles]
Workers == 1..MaxRecv

(***************************************************************************)
(* The inputs: csv rows as sequences of columns, a column a text.          *)
(***************************************************************************)
\* 1,0801          a = 1
RowA == << <<"1">>, <<"0", "8", "0", "1">> >>
\* 2,0x1002,z      marker, r = [2], and a column beyond the field names
RowB == << <<"2">>, <<"0", "x", "1", "0", "0", "2">>, <<"z">> >>
\* 3               fewer columns than field names
RowShort == << <<"3">> >>
\* 4,080           hex text of odd length
RowOdd == << <<"4">>, <<"0", "8", "0">> >>
\* 5,              empty payload text
RowEmpty == << <<"5">>, <<>> >>
\* 6,08            hex text whose bytes are a truncated message
RowWire == << <<"6">>, <<"0", "8">> >>

GoodRows == {RowA, RowB}
BadRows == {RowShort, RowOdd, RowEmpty, RowWire}

\* n good rows: RowA at the odd positions, RowB at the even ones
GoodInput(n) == [ k \in 1..n |-> IF k % 2 = 1 THEN RowA ELSE RowB ]

\* the inputs: up to MaxRows good rows, or such rows with one of them replaced
\* by a row that is not good
Inputs ==
    { GoodInput(n) : n \in 0..MaxRows }
    \cup UNION { { [GoodInput(n) EXCEPT ![k] = b] : k \in 1..n, b \in BadRows } :
                  n \in 1..MaxRows }

FieldLists == { <<"id", "data">>, <<"id", "x">>, <<"", "data">>, <<"data">> }

Options ==
    [ fields : FieldLists, dataField : {"data"},
      recv : (-1)..MaxRecv,
      writerName : {"console", "file", "tcp"},
      marshalerName : {"json", "xml"},
      srcFile : {"", "in.csv"},
      pb : {"unreadable", "empty", "good"},
      msgName : {"pkg.M", "pkg.E", "pkg.None"} ]

\* options with which main gets to the pipeline and decodes pkg.M
Plain(o) ==
    /\ o.fields = <<"id", "data">>
    /\ o.recv >= 1
    /\ o.writerName \in {"console", "file"}
    /\ o.marshalerName = "json"
    /\ o.pb = "good"
    /\ o.msgName = "pkg.M"

\* Source with the text of -data read whenever there is one
SourceInlineFirst == IF inline # <<>> THEN inline ELSE input

\* the rows ReadData is given: the reader of line 250 is made of the opened
\* source file, the reader of line 262 of the text of -data, and line 248
\* takes the first whenever -srcfile is not empty
Source == IF opt.srcFile # "" THEN input ELSE inline

\* the state of the process when main starts, but for the options, the two
\* inputs and status
Fresh ==
    /\ fatal = NoValue
    /\ mainpc = "fields"
    /\ io = [pbRead |-> FALSE, dstCreated |-> FALSE, srcOpened |-> FALSE]
    /\ files = EmptyFiles
    /\ regWrites = 0
    /\ dataList = <<>>
    /\ closed = FALSE
    /\ prod = [pc |-> "none", count |-> 0, data |-> NoData]
    /\ wk = [w \in Workers |-> [pc |-> "none", data |-> NoData, text |-> NoValue]]
    /\ mutex = 0
    /\ dest = <<>>
    /\ failedWrites = {}

\* every option with a one-row input, and the options that get main to the
\* pipeline with every input; with -srcfile the text of -data is empty or
\* one row that the file does not start with, without it there is no file
Init ==
    /\ opt \in Options
    /\ IF opt.srcFile # ""
       THEN input \in Inputs /\ inline \in {<<>>, <<RowB>>}
       ELSE input = <<>> /\ inline \in Inputs
    /\ Plain(opt) \/ (Len(Source) = 1 /\ Source[1] \in {RowA, RowShort})
    /\ status = "running"
    /\ Fresh
    /\ fnIn = <<>>
    /\ fnOut = NoValue

\* panic(err): the process dies with err.  What other goroutines may still do
\* while the runtime unwinds and prints is left out: the process is gone at once.
Panic(err) ==
    /\ status' = "panic"
    /\ fatal' = err

(***************************************************************************)
(* main up to the pipeline (lines 201-246).                                *)
(***************************************************************************)
\* checkFields with hasDataField starting out true: the list is never refused
RECURSIVE checkFieldsFoundByDefault(_, _, _)
checkFieldsFoundByDefault(fields, dataField, k) ==
    IF k > Len(fields) THEN "ok"
    ELSE IF fields[k] = dataField THEN "ok"
    ELSE IF fields[k] = "" THEN "emptyName"
    ELSE checkFieldsFoundByDefault(fields, dataField, k + 1)

\* the loop over fields (lines 203-212) from index k on, and the test after it
RECURSIVE checkFields(_, _, _)
checkFields(fields, dataField, k) ==
    IF k > Len(fields) THEN "notInList"
    ELSE IF fields[k] = dataField THEN "ok"
    ELSE IF fields[k] = "" THEN "emptyName"
    ELSE checkFields(fields, dataField, k + 1)

\* lines 201-215
CheckFields ==
    /\ status = "running" /\ mainpc = "fields"
    /\ LET r == checkFields(opt.fields, opt.dataField, 1)
       IN  IF r = "ok"
           THEN mainpc' = "register" /\ UNCHANGED <<status, fatal>>
           ELSE Panic([kind |-> "config", what |-> r]) /\ UNCHANGED mainpc
    /\ UNCHANGED <<opt, input, inline, io, files, regWrites, dataList, closed,
                   prod, wk, mutex, dest, failedWrites, fnIn, fnOut>>

\* registerPbFile that registers the file a second time
registerPbFileTwice(pb, global) ==
    IF pb = "unreadable" THEN [kind |-> "error", files |-> global, writes |-> 0]
    ELSE IF pb = "empty" THEN [kind |-> "panic", files |-> global, writes |-> 0]
    ELSE [kind |-> "ok", files |-> GoodFile @@ global, writes |-> 2]

\* registerPbFile (lines 22-38) on the file of -pb: what it returns, and the
\* registry after it
registerPbFile(pb, global) ==
    IF pb = "unreadable" THEN [kind |-> "error", files |-> global, writes |-> 0]
    ELSE IF pb = "empty" THEN [kind |-> "panic", files |-> global, writes |-> 0]
    ELSE [kind |-> "ok", files |-> GoodFile @@ global, writes |-> 1]

\* lines 217-219
RegisterPb ==
    /\ status = "running" /\ mainpc = "register"
    /\ io' = [io EXCEPT !.pbRead = (opt.pb # "unreadable")]
    /\ LET r == registerPbFile(opt.pb, files)
       IN  /\ files' = r.files
           /\ regWrites' = regWrites + r.writes
           /\ IF r.kind = "ok"
              THEN mainpc' = "recv" /\ UNCHANGED <<status, fatal>>
              ELSE Panic([kind |-> "schema", what |-> r.kind]) /\ UNCHANGED mainpc
    /\ UNCHANGED <<opt, input, inline, dataList, closed, prod, wk, mutex,
                   dest, failedWrites, fnIn, fnOut>>

\* lines 221-225
CheckRecv ==
    /\ status = "running" /\ mainpc = "recv"
    /\ IF opt.recv <= 0
       THEN Panic([kind |-> "config", what |-> "recv"]) /\ UNCHANGED mainpc
       ELSE mainpc' = "writer" /\ UNCHANGED <<status, fatal>>
    /\ UNCHANGED <<opt, input, inline, io, files, regWrites, dataList, closed,
                   prod, wk, mutex, dest, failedWrites, fnIn, fnOut>>

\* a buffer with room for one Record more
CapPlusOne == opt.recv * 2 + 1

\* cap(dataList), line 224
Cap == opt.recv * 2

\* lines 230-240; created tells whether os.Create succeeds in OpenFile
SelectWriter(created) ==
    /\ status = "running" /\ mainpc = "writer"
    /\ IF opt.writerName = "console"
       THEN created /\ mainpc' = "marshaler" /\ UNCHANGED <<status, fatal, io>>
       ELSE IF opt.writerName = "file"
       THEN IF created
            THEN /\ io' = [io EXCEPT !.dstCreated = TRUE]
                 /\ mainpc' = "marshaler"
                 /\ UNCHANGED <<status, fatal>>
            ELSE /\ Panic([kind |-> "io", what |-> "create"])
                 /\ UNCHANGED <<mainpc, io>>
       ELSE /\ created
            /\ Panic([kind |-> "config", what |-> "writer"])
            /\ UNCHANGED <<mainpc, io>>
    /\ UNCHANGED <<opt, input, inline, files, regWrites, dataList, closed,
                   prod, wk, mutex, dest, failedWrites, fnIn, fnOut>>

\* lines 242-246
SelectMarshaler ==
    /\ status = "running" /\ mainpc = "marshaler"
    /\ IF opt.marshalerName = "json"
       THEN mainpc' = "input" /\ UNCHANGED <<status, fatal>>
       ELSE Panic([kind |-> "config", what |-> "marshaler"]) /\ UNCHANGED mainpc
    /\ UNCHANGED <<opt, input, inline, io, files, regWrites, dataList, closed,
                   prod, wk, mutex, dest, failedWrites, fnIn, fnOut>>

\* the producer made a goroutine for the text of -data too
StartInputGoroutine ==
    /\ status = "running" /\ mainpc = "input"
    /\ mainpc' = "spawn"
    /\ prod' = [prod EXCEPT !.pc = IF opt.srcFile # "" THEN "open" ELSE "read"]
    /\ UNCHANGED <<opt, input, inline, status, fatal, io, files, regWrites,
                   dataList, closed, wk, mutex, dest, failedWrites, fnIn,
                   fnOut>>

\* lines 248-249 and 261-262: with -srcfile the producer is a goroutine and
\* main goes on to start the receivers; without it main itself runs ReadData
StartInput ==
    /\ status = "running" /\ mainpc = "input"
    /\ IF opt.srcFile # ""
       THEN mainpc' = "spawn" /\ prod' = [prod EXCEPT !.pc = "open"]
       ELSE mainpc' = "inline" /\ prod' = [prod EXCEPT !.pc = "read"]
    /\ UNCHANGED <<opt, input, inline, status, fatal, io, files, regWrites,
                   dataList, closed, wk, mutex, dest, failedWrites, fnIn,
                   fnOut>>

(***************************************************************************)
(* The producer: ReadData (lines 149-176) and the code around its call     *)
(* (lines 250-259, 262-266).                                               *)
(***************************************************************************)
\* the map with every field taken from the last column of the row
mkDataLastColumn(fields, records) ==
    [ f \in { fields[k] : k \in 1..Len(fields) } |-> records[Len(records)] ]

\* the map built by lines 165-172: for k, v := range fields, data[v] = records[k]
mkData(fields, records) ==
    [ f \in { fields[k] : k \in 1..Len(fields) } |->
        LET K == { k \in 1..Len(fields) : fields[k] = f }
        IN  records[CHOOSE k \in K : \A j \in K : j <= k] ]

\* readDataStep going on to the next row after a short one
RECURSIVE readDataStepSkipShort(_, _, _)
readDataStepSkipShort(fields, count, rows) ==
    IF count + 1 > Len(rows) THEN [kind |-> "eof", count |-> count]
    ELSE LET records == rows[count + 1]
             n == count + 1
         IN  IF Len(records) < Len(fields)
             THEN readDataStepSkipShort(fields, n, rows)
             ELSE [kind |-> "data", count |-> n,
                   data |-> [line |-> n, data |-> mkData(fields, records)]]

\* one turn of the loop of ReadData after count rows were read from rows
readDataStep(fields, count, rows) ==
    IF count + 1 > Len(rows) THEN [kind |-> "eof", count |-> count]
    ELSE LET records == rows[count + 1]
             n == count + 1
         IN  IF Len(records) < Len(fields)
             THEN [kind |-> "error", count |-> n, line |-> n]
             ELSE [kind |-> "data", count |-> n,
                   data |-> [line |-> n, data |-> mkData(fields, records)]]

\* lines 250-254: os.Open of the source file, which may fail
ProdOpen(opened) ==
    /\ status = "running" /\ prod.pc = "open"
    /\ IF opened
       THEN /\ io' = [io EXCEPT !.srcOpened = TRUE]
            /\ prod' = [prod EXCEPT !.pc = "read"]
            /\ UNCHANGED <<status, fatal>>
       ELSE /\ Panic([kind |-> "io", what |-> "open"])
            /\ UNCHANGED <<io, prod>>
    /\ UNCHANGED <<opt, input, inline, mainpc, files, regWrites, dataList,
                   closed, wk, mutex, dest, failedWrites, fnIn, fnOut>>

\* lines 154-172: reader.Read and the making of the Data; readOk is false when
\* the read of the file fails (records is nil), which the reader of -data
\* never does.  An error returned by ReadData is the panic of line 257 or 264.
ProdRead(readOk) ==
    /\ status = "running" /\ prod.pc = "read"
    /\ readOk \/ opt.srcFile # ""
    /\ IF ~readOk
       THEN Panic([kind |-> "io", what |-> "read"]) /\ UNCHANGED prod
       ELSE LET r == readDataStep(opt.fields, prod.count, Source)
            IN  IF r.kind = "eof"
                THEN /\ prod' = [prod EXCEPT !.pc = "close"]
                     /\ UNCHANGED <<status, fatal>>
                ELSE IF r.kind = "error"
                THEN /\ Panic([kind |-> "record", line |-> r.line])
                     /\ prod' = [prod EXCEPT !.count = r.count]
                ELSE /\ prod' = [pc |-> "send", count |-> r.count, data |-> r.data]
                     /\ UNCHANGED <<status, fatal>>
    /\ UNCHANGED <<opt, input, inline, mainpc, io, files, regWrites, dataList,
                   closed, wk, mutex, dest, failedWrites, fnIn, fnOut>>

\* the send putting the Record at the front of the buffer
ProdSendFront ==
    /\ status = "running" /\ prod.pc = "send"
    /\ Len(dataList) < Cap
    /\ dataList' = <<prod.data>> \o dataList
    /\ prod' = [prod EXCEPT !.pc = "read", !.data = NoData]
    /\ UNCHANGED <<opt, input, inline, status, fatal, mainpc, io, files,
                   regWrites, closed, wk, mutex, dest, failedWrites, fnIn,
                   fnOut>>

\* line 173: dataList <- data, which waits while the buffer is full
ProdSend ==
    /\ status = "running" /\ prod.pc = "send"
    /\ Len(dataList) < Cap
    /\ dataList' = Append(dataList, prod.data)
    /\ prod' = [prod EXCEPT !.pc = "read", !.data = NoData]
    /\ UNCHANGED <<opt, input, inline, status, fatal, mainpc, io, files,
                   regWrites, closed, wk, mutex, dest, failedWrites, fnIn,
                   fnOut>>

\* lines 259 and 266: close(dataList); main, when it was the producer, goes on
ProdClose ==
    /\ status = "running" /\ prod.pc = "close"
    /\ closed' = TRUE
    /\ prod' = [prod EXCEPT !.pc = "done"]
    /\ mainpc' = IF mainpc = "inline" THEN "spawn" ELSE mainpc
    /\ UNCHANGED <<opt, input, inline, status, fatal, io, files, regWrites,
                   dataList, wk, mutex, dest, failedWrites, fnIn, fnOut>>

(***************************************************************************)
(* The receivers (lines 269-291), the Marshaler and the Writers.           *)
(***************************************************************************)
\* line 269-271: the next receiver is started; after the last, main waits
Spawn(w) ==
    /\ status = "running" /\ mainpc = "spawn"
    /\ w <= opt.recv
    /\ wk[w].pc = "none"
    /\ \A v \in 1..(w - 1) : wk[v].pc # "none"
    /\ wk' = [wk EXCEPT ![w].pc = "recv"]
    /\ mainpc' = IF w = opt.recv THEN "wait" ELSE "spawn"
    /\ UNCHANGED <<opt, input, inline, status, fatal, io, files, regWrites,
                   dataList, closed, prod, mutex, dest, failedWrites, fnIn,
                   fnOut>>

\* a receive that does not wait: the receiver ends its loop on an empty
\* buffer, closed or not
ReceiveExitOnEmpty(w) ==
    /\ status = "running" /\ wk[w].pc = "recv"
    /\ IF dataList # <<>>
       THEN /\ wk' = [wk EXCEPT ![w].pc = "proc", ![w].data = Head(dataList)]
            /\ dataList' = Tail(dataList)
       ELSE /\ wk' = [wk EXCEPT ![w].pc = "exit"]
            /\ UNCHANGED dataList
    /\ UNCHANGED <<opt, input, inline, status, fatal, mainpc, io, files,
                   regWrites, closed, prod, mutex, dest, failedWrites, fnIn,
                   fnOut>>

\* a receive that hands out the head of the buffer and leaves it there
ReceiveNoRemove(w) ==
    /\ status = "running" /\ wk[w].pc = "recv"
    /\ IF dataList # <<>>
       THEN /\ wk' = [wk EXCEPT ![w].pc = "proc", ![w].data = Head(dataList)]
            /\ dataList' = IF \E v \in Workers : wk[v].data = Head(dataList)
                           THEN Tail(dataList) ELSE dataList
       ELSE /\ closed
            /\ wk' = [wk EXCEPT ![w].pc = "exit"]
            /\ UNCHANGED dataList
    /\ UNCHANGED <<opt, input, inline, status, fatal, mainpc, io, files,
                   regWrites, closed, prod, mutex, dest, failedWrites, fnIn,
                   fnOut>>

\* line 274: range dataList takes the head of the buffer, ends when the
\* channel is closed and empty (then wg.Done), waits otherwise
Receive(w) ==
    /\ status = "running" /\ wk[w].pc = "recv"
    /\ IF dataList # <<>>
       THEN /\ wk' = [wk EXCEPT ![w].pc = "proc", ![w].data = Head(dataList)]
            /\ dataList' = Tail(dataList)
       ELSE /\ closed
            /\ wk' = [wk EXCEPT ![w].pc = "exit"]
            /\ UNCHANGED dataList
    /\ UNCHANGED <<opt, input, inline, status, fatal, mainpc, io, files,
                   regWrites, closed, prod, mutex, dest, failedWrites, fnIn,
                   fnOut>>

\* JsonMarshaler.Marshal (lines 106-108): the text stands for the map it encodes
Marshal(value) == [kind |-> "ok", text |-> value]

\* lines 275-283: parseData of the payload field, its replacement in the
\* Record's map, Marshal; an error of either is a panic
Process(w) ==
    /\ status = "running" /\ wk[w].pc = "proc"
    /\ LET d == wk[w].data
           r == parseData(files, d.data[opt.dataField], opt.msgName)
           nd == [d EXCEPT !.data[opt.dataField] = r.value]
           t == Marshal(nd.data)
       IN  IF r.kind # "ok"
           THEN /\ Panic([kind |-> "decode", line |-> d.line, what |-> r.kind])
                /\ UNCHANGED wk
           ELSE IF t.kind # "ok"
           THEN /\ Panic([kind |-> "marshal", line |-> d.line, what |-> t.kind])
                /\ UNCHANGED wk
           ELSE /\ wk' = [wk EXCEPT ![w] = [pc |-> "write", data |-> nd,
                                            text |-> t.text]]
                /\ UNCHANGED <<status, fatal>>
    /\ UNCHANGED <<opt, input, inline, mainpc, io, files, regWrites, dataList,
                   closed, prod, mutex, dest, failedWrites, fnIn, fnOut>>

\* what a write leaves in the destination
RecBytes(line, text) == [kind |-> "rec", line |-> line, text |-> text]
PartBytes(line, text) == [kind |-> "part", line |-> line, text |-> text]
NewLine(line) == [kind |-> "nl", line |-> line, text |-> NoValue]

\* ConsoleWriter.Write (lines 144-147): one Printf of the text and a newline
ConsoleWrite(w) ==
    /\ status = "running" /\ wk[w].pc = "write"
    /\ opt.writerName = "console"
    /\ dest' = dest \o << RecBytes(wk[w].data.line, wk[w].text),
                          NewLine(wk[w].data.line) >>
    /\ wk' = [wk EXCEPT ![w] = [pc |-> "recv", data |-> NoData, text |-> NoValue]]
    /\ UNCHANGED <<opt, input, inline, status, fatal, mainpc, io, files,
                   regWrites, dataList, closed, prod, mutex, failedWrites,
                   fnIn, fnOut>>

\* whether FileWriter.Write takes the mutex before it writes (line 129)
WriteLocks == TRUE

\* line 129: w.mutex.Lock()
FileLock(w) ==
    /\ status = "running" /\ wk[w].pc = "write"
    /\ opt.writerName = "file"
    /\ IF WriteLocks THEN mutex = 0 /\ mutex' = w ELSE UNCHANGED mutex
    /\ wk' = [wk EXCEPT ![w].pc = "data"]
    /\ UNCHANGED <<opt, input, inline, status, fatal, mainpc, io, files,
                   regWrites, dataList, closed, prod, dest, failedWrites,
                   fnIn, fnOut>>

\* the error FileWriter.Write returns (lines 131-138) when the write of the
\* data or of the newline went well or not
fileWriteError(dataOk, nlOk) == IF ~dataOk THEN "err" ELSE "nil"

\* lines 131-133: w.file.Write(data); on its failure Write returns the error
\* (the mutex is released) and line 285 panics
FileWriteData(w, ok) ==
    /\ status = "running" /\ wk[w].pc = "data"
    /\ IF ok
       THEN /\ dest' = Append(dest, RecBytes(wk[w].data.line, wk[w].text))
            /\ wk' = [wk EXCEPT ![w].pc = "nl"]
            /\ UNCHANGED <<status, fatal, mutex, failedWrites>>
       ELSE /\ dest' = Append(dest, PartBytes(wk[w].data.line, wk[w].text))
            /\ failedWrites' = failedWrites \cup {wk[w].data.line}
            /\ mutex' = IF mutex = w THEN 0 ELSE mutex
            /\ IF fileWriteError(FALSE, TRUE) = "nil"
               THEN /\ wk' = [wk EXCEPT ![w] = [pc |-> "recv", data |-> NoData,
                                                text |-> NoValue]]
                    /\ UNCHANGED <<status, fatal>>
               ELSE /\ Panic([kind |-> "write", line |-> wk[w].data.line])
                    /\ UNCHANGED wk
    /\ UNCHANGED <<opt, input, inline, mainpc, io, files, regWrites, dataList,
                   closed, prod, fnIn, fnOut>>

\* lines 134-138: w.file.Write of the newline, the return and the deferred
\* Unlock; line 285 panics when Write returned an error
FileWriteNewline(w, ok) ==
    /\ status = "running" /\ wk[w].pc = "nl"
    /\ dest' = IF ok THEN Append(dest, NewLine(wk[w].data.line)) ELSE dest
    /\ failedWrites' = IF ok THEN failedWrites
                       ELSE failedWrites \cup {wk[w].data.line}
    /\ mutex' = IF mutex = w THEN 0 ELSE mutex
    /\ IF fileWriteError(TRUE, ok) = "nil"
       THEN /\ wk' = [wk EXCEPT ![w] = [pc |-> "recv", data |-> NoData,
                                        text |-> NoValue]]
            /\ UNCHANGED <<status, fatal>>
       ELSE /\ Panic([kind |-> "write", line |-> wk[w].data.line])
            /\ UNCHANGED wk
    /\ UNCHANGED <<opt, input, inline, mainpc, io, files, regWrites, dataList,
                   closed, prod, fnIn, fnOut>>

\* line 291: wg.Wait returns when every receiver has called wg.Done, and main
\* returns: the process exits
Wait ==
    /\ status = "running" /\ mainpc = "wait"
    /\ \A w \in 1..opt.recv : wk[w].pc = "exit"
    /\ mainpc' = "done"
    /\ status' = "exited"
    /\ UNCHANGED <<opt, input, inline, fatal, io, files, regWrites, dataList,
                   closed, prod, wk, mutex, dest, failedWrites, fnIn, fnOut>>

(***************************************************************************)
(* The Go runtime ends the process with "all goroutines are asleep" when   *)
(* main and every goroutine wait on a channel, the WaitGroup or the mutex. *)
(***************************************************************************)
SendWaits == prod.pc = "send" /\ Len(dataList) >= Cap

MainAsleep ==
    \/ mainpc = "wait" /\ \E w \in 1..opt.recv : wk[w].pc # "exit"
    \/ mainpc = "inline" /\ SendWaits

ProducerAsleep == opt.srcFile = "" \/ prod.pc \in {"none", "done"} \/ SendWaits

ReceiverAsleep(w) ==
    \/ wk[w].pc \in {"none", "exit"}
    \/ wk[w].pc = "recv" /\ dataList = <<>> /\ ~closed
    \/ wk[w].pc = "write" /\ opt.writerName = "file" /\ WriteLocks /\ mutex # 0

RuntimeDeadlock ==
    /\ status = "running"
    /\ MainAsleep /\ ProducerAsleep /\ \A w \in Workers : ReceiverAsleep(w)
    /\ Panic([kind |-> "deadlock"])
    /\ UNCHANGED <<opt, input, inline, mainpc, io, files, regWrites, dataList,
                   closed, prod, wk, mutex, dest, failedWrites, fnIn, fnOut>>

Next ==
    \/ CheckFields
    \/ RegisterPb
    \/ CheckRecv
    \/ \E created \in BOOLEAN : SelectWriter(created)
    \/ SelectMarshaler
    \/ StartInput
    \/ \E opened \in BOOLEAN : ProdOpen(opened)
    \/ \E readOk \in BOOLEAN : ProdRead(readOk)
    \/ ProdSend
    \/ ProdClose
    \/ \E w \in Workers : Spawn(w)
    \/ \E w \in Workers : Receive(w)
    \/ \E w \in Workers : Process(w)
    \/ \E w \in Workers : ConsoleWrite(w)
    \/ \E w \in Workers : FileLock(w)
    \/ \E w \in Workers, ok \in BOOLEAN : FileWriteData(w, ok)
    \/ \E w \in Workers, ok \in BOOLEAN : FileWriteNewline(w, ok)
    \/ Wait
    \/ RuntimeDeadlock

Spec == Init /\ [][Next]_vars

(***************************************************************************)
(* parseData applied on its own to every short text over a few characters. *)
(***************************************************************************)
TextChars == {"0", "x", "X", "8", "a"}

RECURSIVE SeqsUpTo(_, _)
SeqsUpTo(S, n) ==
    IF n = 0 THEN {<<>>}
    ELSE LET shorter == SeqsUpTo(S, n - 1)
         IN  shorter \cup { Append(q, c) : q \in shorter, c \in S }

\* no process runs: only a function is applied
NoProcess ==
    /\ opt = [fields |-> <<"id", "data">>, dataField |-> "data", recv |-> 1,
              writerName |-> "console", marshalerName |-> "json",
              srcFile |-> "", pb |-> "good", msgName |-> "pkg.M"]
    /\ input = <<>> /\ inline = <<>>
    /\ status = "none"
    /\ Fresh

ParseInit ==
    /\ NoProcess
    /\ fnIn \in SeqsUpTo(TextChars, MaxTextLen)
    /\ fnOut = NoValue

\* parseData(fnIn, "pkg.M") against the registered GoodFile, and its hex step
ApplyParseData ==
    /\ status = "none" /\ fnOut = NoValue
    /\ fnOut' = [hex |-> parseDataHex(fnIn),
                 parsed |-> parseData(GoodFile, fnIn, "pkg.M")]
    /\ UNCHANGED <<pipeVars, fnIn>>

ParseSpec == ParseInit /\ [][ApplyParseData]_vars

(***************************************************************************)
(* unmarshalProtoData applied on its own to the encodings of pkg.M.  A     *)
(* message on the wire is a sequence of items, the occurrences of fields:  *)
(* number, value, and for the field sub the items of the embedded message. *)
(***************************************************************************)
ScalarItems == [num : {1, 2, 4}, val : 0..2, sub : {<<>>}]

SubItems ==
    [num : {3}, val : {0},
     sub : { <<>>, << [num |-> 1, val |-> 1, sub |-> <<>>] >>,
             << [num |-> 2, val |-> 2, sub |-> <<>>] >> }]

\* the wire bytes of items: tag (number * 8 + wire type), then the varint
\* value or the length and bytes of the embedded message
RECURSIVE encode(_)
encode(items) ==
    IF items = <<>> THEN <<>>
    ELSE LET it == Head(items)
             body == encode(it.sub)
         IN  (IF it.num = 3
              THEN <<it.num * 8 + 2, Len(body)>> \o body
              ELSE <<it.num * 8, it.val>>) \o encode(Tail(items))

ConvInit ==
    /\ NoProcess
    /\ fnIn \in SeqsUpTo(ScalarItems \cup SubItems, MaxOccur)
    /\ fnOut = NoValue

\* unmarshalProtoData(encode(fnIn), "pkg.M"), and the message it flattens
ApplyUnmarshal ==
    /\ status = "none" /\ fnOut = NoValue
    /\ fnOut' = [msg |-> [type |-> "pkg.M",
                          known |-> unmarshalFields(GoodFile, GoodFile["pkg.M"],
                                        encode(fnIn), 1, EmptyFiles).known],
                 res |-> unmarshalProtoData(GoodFile, encode(fnIn), "pkg.M")]
    /\ UNCHANGED <<pipeVars, fnIn>>

ConvSpec == ConvInit /\ [][ApplyUnmarshal]_vars

(***************************************************************************)
(* Scheduling: every step of main or of a goroutine moves it forward, so   *)
(* no run has a cycle; the Go scheduler runs a goroutine that can take a   *)
(* step, so a run stops only where no step is left.                        *)
(***************************************************************************)
FairSpec == Spec /\ WF_vars(Next)

(***************************************************************************)
(* Properties.                                                             *)
(***************************************************************************)
\* every row of the input is a good row
ValidRows == \A k \in 1..Len(Source) : Source[k] \in GoodRows

\* DRAINED: the producer closed the queue, every receiver left its loop with
\* the queue empty, and main returned
Drained ==
    /\ status = "exited"
    /\ closed /\ dataList = <<>> /\ prod.pc = "done"
    /\ \A w \in 1..opt.recv : wk[w].pc = "exit"

\* the process died of a failure of the file system
IOFailed == status = "panic" /\ fatal.kind \in {"io", "write"}

\* C1: for valid rows and recv >= 1, with or without -srcfile, the pipeline
\* eventually reaches DRAINED unless the file system fails.
C1_EventuallyDrained == (Plain(opt) /\ ValidRows) => <>(Drained \/ IOFailed)

\* the positions in dest of the complete lines of Record n: its bytes with
\* its newline right after them
LinesOf(n) ==
    { i \in 1..(Len(dest) - 1) :
        /\ dest[i].kind = "rec" /\ dest[i].line = n
        /\ dest[i + 1].kind = "nl" /\ dest[i + 1].line = n }

NewLines == { i \in 1..Len(dest) : dest[i].kind = "nl" }

\* C2: when main returns after N valid rows, the destination holds exactly N
\* lines, one for each Record.
C2_ExactlyNLines ==
    (Plain(opt) /\ ValidRows /\ status = "exited")
        => /\ Cardinality(NewLines) = Len(Source)
           /\ \A n \in 1..Len(Source) : Cardinality(LinesOf(n)) = 1

\* the payload field is no member of the list of field names
NotInFields == opt.dataField \notin { opt.fields[k] : k \in 1..Len(opt.fields) }

NoIO ==
    /\ ~io.pbRead /\ ~io.dstCreated /\ ~io.srcOpened
    /\ files = EmptyFiles
    /\ prod.count = 0 /\ dataList = <<>> /\ dest = <<>>

\* C3: with the payload field not among the field names, main fails with a
\* configuration error as its first step and nothing is read, created or
\* written.
C3_NoFieldNoIO ==
    NotInFields =>
        /\ NoIO
        /\ mainpc = "fields"
        /\ status = "running" \/ (status = "panic" /\ fatal.kind = "config")

C3_Witness == NotInFields /\ status = "panic" /\ fatal.what = "notInList"

\* C4: when a bad worker count, Writer name or Marshaler name is raised, the
\* schema file has not been read and the destination has not been created.
C4_ConfigBeforeIO ==
    (status = "panic" /\ fatal.kind = "config"
        /\ fatal.what \in {"recv", "writer", "marshaler"})
        => ~io.pbRead /\ ~io.dstCreated

\* the positions of the rows with fewer columns than field names
ShortRows == { k \in 1..Len(Source) : Len(Source[k]) < Len(opt.fields) }

\* the lines of the Records that exist: queued, held or written
LiveLines ==
    { dataList[i].line : i \in 1..Len(dataList) }
    \cup { dest[i].line : i \in 1..Len(dest) }
    \cup { wk[w].data.line : w \in Workers }
    \cup { prod.data.line }

\* C5: a row with too few columns ends ingestion with an error that names its
\* 1-based position; no row after it is read, enqueued or processed, and the
\* run never ends as a drained pipeline.
C5_ShortRowFatal ==
    \A k \in ShortRows :
        /\ prod.count <= k
        /\ \A n \in LiveLines : n < k
        /\ prod.count = k => (status = "panic" /\ fatal.kind = "record"
                                               /\ fatal.line = k)
        /\ status # "exited"

C5_Witness ==
    /\ status = "panic" /\ fatal.kind = "record" /\ fatal.line = 2
    /\ opt.srcFile # "" /\ Len(input) = 3
    /\ \E i \in 1..Len(dest) : dest[i].line = 1

\* payload texts of the inputs that parseData cannot turn into a message of
\* pkg.M: odd length, empty, truncated wire bytes
BadTexts == { RowOdd[2], RowEmpty[2], RowWire[2], RowA[1], RowShort[1] }

\* the positions of the rows that become a Record with such a payload
BadPayloadRows ==
    { k \in 1..Len(Source) :
        /\ ~NotInFields
        /\ Len(Source[k]) >= Len(opt.fields)
        /\ mkData(opt.fields, Source[k])[opt.dataField] \in BadTexts }

\* C6: a Record whose payload does not normalize or decode never gets an
\* output line; the receiver that took it never goes past the decoding,
\* and the run does not end as a drained pipeline.
C6_DecodeFailureFatal ==
    \A k \in BadPayloadRows :
        /\ \A i \in 1..Len(dest) : dest[i].line # k
        /\ \A w \in Workers : wk[w].data.line = k => wk[w].pc = "proc"
        /\ status # "exited"

C6_Witness ==
    /\ status = "panic" /\ fatal.kind = "decode"
    /\ fatal.line \in BadPayloadRows
    /\ fatal.line = 2 /\ dest # <<>>

\* C7: a failed write of the file Writer, of the bytes or of the newline, is
\* fatal: the process has panicked with the write error.
C7_WriteFailureFatal ==
    failedWrites # {} => (status = "panic" /\ fatal.kind = "write")

\* C8: the destination is a sequence of whole lines, each the bytes of one
\* Record and then its newline, with at most one line in progress at the end.
C8_WholeLines ==
    \A i \in 1..Len(dest) :
        /\ dest[i].kind = "rec" =>
              \/ i = Len(dest)
              \/ dest[i + 1].kind = "nl" /\ dest[i + 1].line = dest[i].line
        /\ dest[i].kind = "nl" =>
              /\ i > 1
              /\ dest[i - 1].kind = "rec" /\ dest[i - 1].line = dest[i].line
        /\ dest[i].kind = "part" => i = Len(dest)

HexDigitChars ==
    {"0", "1", "2", "3", "4", "5", "6", "7", "8", "9",
     "a", "b", "c", "d", "e", "f", "A", "B", "C", "D", "E", "F"}

HasMarker(t) == Len(t) >= 2 /\ t[1] = "0" /\ t[2] \in {"x", "X"}

DigitsOf(t) == IF HasMarker(t) THEN SubSeq(t, 3, Len(t)) ELSE t

\* hex digits, with or without the marker 0x or 0X before them
HexText(t) == \A i \in 1..Len(DigitsOf(t)) : DigitsOf(t)[i] \in HexDigitChars

\* C9: for a text of hex digits with or without a marker, the hex step of
\* parseData returns length/2 - 1 bytes (marker) or length/2 bytes (none)
\* when the length is even, and parseData returns a decode error when the
\* length is odd.
C9_Normalize ==
    (DOMAIN fnOut # {} /\ HexText(fnIn)) =>
        IF Len(fnIn) % 2 = 0
        THEN /\ fnOut.hex.kind = "ok"
             /\ Len(fnOut.hex.bytes) =
                    IF HasMarker(fnIn) THEN Len(fnIn) \div 2 - 1
                    ELSE Len(fnIn) \div 2
             /\ 2 * Len(fnOut.hex.bytes) = Len(DigitsOf(fnIn))
        ELSE /\ fnOut.parsed.kind = "error"
             /\ fnOut.parsed.cause = "ErrLength"

\* the items of field number n, in the order of the wire
RECURSIVE ItemsOf(_, _)
ItemsOf(items, n) ==
    IF items = <<>> THEN <<>>
    ELSE IF Head(items).num = n
    THEN <<Head(items)>> \o ItemsOf(Tail(items), n)
    ELSE ItemsOf(Tail(items), n)

FieldsOfM == { GoodFile["pkg.M"].fields[i] : i \in 1..Len(GoodFile["pkg.M"].fields) }

\* C10: the map of a decoded pkg.M has exactly the names of the fields the
\* message has; r is the list of its elements in wire order, a and sub are
\* single values; a field with no item on the wire is not in the map.
C10_Flatten ==
    DOMAIN fnOut # {} =>
        LET m == fnOut.res.value
            msg == fnOut.msg
            as == ItemsOf(fnIn, 1)
            rs == ItemsOf(fnIn, 2)
            subs == ItemsOf(fnIn, 3)
        IN  /\ fnOut.res.kind = "ok"
            /\ DOMAIN m = { f.name : f \in { g \in FieldsOfM : Has(msg, g) } }
            /\ \A f \in FieldsOfM : ItemsOf(fnIn, f.number) = <<>>
                                        => f.name \notin DOMAIN m
            /\ "r" \in DOMAIN m <=> rs # <<>>
            /\ "r" \in DOMAIN m => m["r"] = [ j \in 1..Len(rs) |-> rs[j].val ]
            /\ "a" \in DOMAIN m <=> (as # <<>> /\ as[Len(as)].val # 0)
            /\ "a" \in DOMAIN m => m["a"] = as[Len(as)].val
            /\ "sub" \in DOMAIN m <=> subs # <<>>
            /\ "sub" \in DOMAIN m => m["sub"] = msg.known[3]

C10_Witness ==
    /\ DOMAIN fnOut # {}
    /\ DOMAIN fnOut.res.value = {"r"}
    /\ fnOut.res.value["r"] = <<1, 2>>
    /\ ItemsOf(fnIn, 1) # <<>>

\* the map the flattening of convertToMap gives when it is applied again to
\* every message value, at every depth
RECURSIVE Flattened(_, _)
Flattened(descriptor, msg) ==
    LET present == { f \in { descriptor.fields[i] :
                               i \in 1..Len(descriptor.fields) } : Has(msg, f) }
    IN  [ name \in { f.name : f \in present } |->
            LET f == CHOOSE g \in present : g.name = name
                v == Get(msg, f)
            IN  IF f.kind = "message"
                THEN Flattened(GoodFile[f.type], v)
                ELSE v ]

\* C11: the value of the message field sub in the map of a decoded pkg.M is
\* itself the map of the embedded message, name -> value, flattened the same
\* way at every depth.
C11_NestedFlattened ==
    (DOMAIN fnOut # {} /\ "sub" \in DOMAIN fnOut.res.value) =>
        LET got == fnOut.res.value["sub"]
            want == Flattened(GoodFile["pkg.M"], fnOut.msg.known[3])
        IN  /\ DOMAIN got = DOMAIN want
            /\ \A name \in DOMAIN want : got[name] = want[name]

\* the Records that the producer holds or that wait in the queue
Unreceived ==
    { dataList[i] : i \in 1..Len(dataList) }
    \cup (IF prod.data.line # 0 THEN {prod.data} ELSE {})

\* the fields of the map m other than the payload field are the columns of
\* row n of rows, each at the position of its name
ColumnsOf(m, n, rows) ==
    /\ n \in 1..Len(rows)
    /\ Len(rows[n]) >= Len(opt.fields)
    /\ \A k \in 1..Len(opt.fields) :
          opt.fields[k] # opt.dataField => m[opt.fields[k]] = rows[n][k]

\* C12: with -srcfile and -data both given the rows are those of the file:
\* main does not run ReadData itself, the producer reads after it opened the
\* file and no further than the file's rows, and every Record queued, held or
\* written is made of the row of the file at its position, none of the text
\* of -data.
C12_SourceFileOnly ==
    (opt.srcFile # "" /\ inline # <<>>) =>
        /\ mainpc # "inline"
        /\ prod.count > 0 => io.srcOpened
        /\ prod.count <= Len(input)
        /\ \A d \in Unreceived :
              /\ d.line \in 1..Len(input)
              /\ Len(input[d.line]) >= Len(opt.fields)
              /\ d.data = mkData(opt.fields, input[d.line])
        /\ \A w \in Workers :
              wk[w].data.line # 0 =>
                  ColumnsOf(wk[w].data.data, wk[w].data.line, input)
        /\ \A i \in 1..Len(dest) :
              dest[i].kind # "nl" =>
                  ColumnsOf(dest[i].text, dest[i].line, input)

C12_Witness ==
    /\ opt.srcFile # "" /\ inline = <<RowB>>
    /\ Len(input) = 2
    /\ status = "exited"
    /\ Cardinality(NewLines) = 2

\* the receivers that hold a Record they took from the queue
InFlight == { w \in Workers : wk[w].data.line # 0 }

\* the Records alive: queued, held by a receiver, held by the producer
Alive ==
    Len(dataList) + Cardinality(InFlight)
        + (IF prod.data.line # 0 THEN 1 ELSE 0)

\* C13: the queue never holds more than 2 * recv Records, and no more than
\* 2 * recv queued + recv held by receivers + one held by the producer are
\* alive at once; the producer that holds a Record while the queue is full
\* has not put it in.
C13_QueueBounded ==
    opt.recv >= 1 =>
        /\ Len(dataList) <= 2 * opt.recv
        /\ Cardinality(InFlight) <= opt.recv
        /\ Alive <= 2 * opt.recv + opt.recv + 1
        /\ \A i \in 1..Len(dataList) : dataList[i].line # prod.data.line

\* a full queue, the producer waiting with the next Record, a receiver at work
C13_Witness ==
    /\ opt.recv = 1
    /\ Len(dataList) = 2 * opt.recv
    /\ prod.pc = "send" /\ prod.data.line = 3
    /\ status = "running"

\* the lines of the Records taken from the queue so far: a receiver holds
\* them, or their bytes are in the destination
Taken ==
    ({ wk[w].data.line : w \in Workers } \ {0})
    \cup { dest[i].line : i \in 1..Len(dest) }

\* Record n is row n of the rows read, the queue is in the order of the lines
\* with the producer's Record after it, and what is still to be taken comes
\* after everything taken
C14_InOrder ==
    /\ \A d \in Unreceived :
          /\ d.line \in 1..prod.count
          /\ d.data = mkData(opt.fields, Source[d.line])
    /\ \A i, j \in 1..Len(dataList) :
          i < j => dataList[i].line < dataList[j].line
    /\ \A i \in 1..Len(dataList) :
          prod.data.line # 0 => dataList[i].line < prod.data.line
    /\ \A d \in Unreceived : \A n \in Taken : n < d.line

\* a receiver that gets a Record gets the head of the queue, whose line is
\* above that of every Record taken before, its own earlier ones among them;
\* bytes that reach the destination are those of the Record the writing
\* receiver holds
C14_Step ==
    /\ \A w \in Workers :
          (wk'[w].data.line # 0 /\ wk[w].data.line = 0) =>
              /\ dataList # <<>> /\ wk'[w].data = Head(dataList)
              /\ \A n \in Taken : n < wk'[w].data.line
    /\ dest' # dest =>
          \E w \in Workers :
              /\ wk[w].data.line # 0
              /\ \A v \in Workers \ {w} : wk'[v] = wk[v]
              /\ \A i \in (Len(dest) + 1)..Len(dest') :
                    dest'[i].line = wk[w].data.line

\* C14: Records get the lines 1, 2, ... in the order of the rows and are
\* queued in that order; the Records one receiver takes, and so the lines it
\* writes, have strictly increasing lines.
C14_OrderKept == []C14_InOrder /\ [][C14_Step]_vars

\* two receivers, and the destination has the line of Record 2 before that
\* of Record 1: there is no order between receivers
C14_Witness ==
    /\ status = "exited" /\ opt.recv = 2
    /\ Len(dest) >= 4
    /\ dest[1].kind = "rec" /\ dest[1].line = 2
    /\ \E i \in 2..Len(dest) : dest[i].kind = "rec" /\ dest[i].line = 1

\* how many tasks hold Record n: the producer before or in the send, the
\* queue at each of its places, the receivers
Holders(n) ==
    (IF prod.data.line = n THEN 1 ELSE 0)
    + Cardinality({ i \in 1..Len(dataList) : dataList[i].line = n })
    + Cardinality({ w \in Workers : wk[w].data.line = n })

\* the payload field of the map m is still the text of the column
Undecoded(m, n) ==
    m[opt.dataField] = mkData(opt.fields, Source[n])[opt.dataField]

\* C15: a Record is in one place at a time, the producer, the queue or one
\* receiver: once sent the producer no longer has it, a Record some receiver
\* took or wrote is not in the queue again, and its payload is the column's
\* text until the receiver that took it has decoded it.
C15_SingleHolder ==
    /\ \A n \in 1..MaxRows : Holders(n) <= 1
    /\ \A n \in Taken :
          /\ prod.data.line # n
          /\ \A i \in 1..Len(dataList) : dataList[i].line # n
          /\ Cardinality({ i \in 1..Len(dest) :
                             dest[i].line = n /\ dest[i].kind # "nl" }) <= 1
    /\ \A d \in Unreceived : Undecoded(d.data, d.line)
    /\ \A w \in Workers :
          wk[w].pc = "proc" => Undecoded(wk[w].data.data, wk[w].data.line)

\* both receivers hold a Record, each its own, one decoded and one not
C15_Witness ==
    /\ opt.recv = 2
    /\ wk[1].pc = "write" /\ wk[2].pc = "proc"
    /\ wk[1].data.line # 0 /\ wk[2].data.line # 0
    /\ dataList # <<>>

\* the names in the list of field names
FieldNames == { opt.fields[k] : k \in 1..Len(opt.fields) }

\* C16: the map of every line written has the field names as its keys; each
\* field but the payload field is the column of the Record's own row at the
\* position of its name, the payload field is parseData of that row's payload
\* column, and no column past the field names is in it.
C16_OnlyPayloadChanged ==
    \A i \in 1..Len(dest) :
        dest[i].kind # "nl" =>
            LET m == dest[i].text
                row == Source[dest[i].line]
                p == CHOOSE k \in 1..Len(opt.fields) :
                        /\ opt.fields[k] = opt.dataField
                        /\ \A j \in 1..Len(opt.fields) :
                              opt.fields[j] = opt.dataField => j <= k
                want == parseData(GoodFile, row[p], opt.msgName)
            IN  /\ dest[i].line \in 1..Len(Source)
                /\ DOMAIN m = FieldNames
                /\ \A k \in 1..Len(opt.fields) :
                      opt.fields[k] # opt.dataField => m[opt.fields[k]] = row[k]
                /\ want.kind = "ok"
                /\ DOMAIN m[opt.dataField] = DOMAIN want.value
                /\ \A name \in DOMAIN want.value :
                      m[opt.dataField][name] = want.value[name]

\* the line of a row with a column past the field names, after the line of
\* another row: id 2 and r = [2] of row 2, nothing of the column z
C16_Witness ==
    /\ Len(dest) >= 3
    /\ dest[3].kind = "rec" /\ dest[3].line = 2 /\ dest[1].line = 1
    /\ Source[2] = RowB
    /\ DOMAIN dest[3].text = {"id", "data"}
    /\ dest[3].text["id"] = <<"2">>
    /\ DOMAIN dest[3].text["data"] = {"r"}
    /\ dest[3].text["data"]["r"] = <<2>>
    /\ dest[1].text["data"]["a"] = 1

\* the producer or a receiver has been started
Started == prod.pc # "none" \/ \E w \in Workers : wk[w].pc # "none"

\* the registry was written once, before anything was started
C17_WrittenOnce ==
    /\ regWrites <= 1
    /\ Started => (regWrites = 1 /\ files = GoodFile)
    /\ regWrites = 0 => files = EmptyFiles

\* a write of the registry is the one of main at line 217, the first, with
\* nothing started; the steps of the producer, the receivers and the Writers
\* leave the registry as it is
C17_WriteStep ==
    (files' # files \/ regWrites' # regWrites) =>
        /\ mainpc = "register" /\ ~Started
        /\ regWrites = 0 /\ regWrites' = 1

\* C17: GlobalFiles is written exactly once, by main before the producer and
\* the receivers are started and before any parseData; nothing writes it
\* afterwards, so every parseData finds the same descriptors.
C17_RegistryWrittenOnce == []C17_WrittenOnce /\ [][C17_WriteStep]_vars

\* a receiver has decoded a Record while the producer is still at work
C17_Witness ==
    /\ regWrites = 1 /\ files = GoodFile
    /\ prod.pc = "send"
    /\ \E w \in Workers : wk[w].pc = "write"

\* the process died of a failure of ingestion: os.Open, the read of the
\* file, or a row with too few columns
IngestionFailed ==
    /\ status = "panic"
    /\ \/ fatal.kind = "record"
       \/ fatal.kind = "io" /\ fatal.what \in {"open", "read"}

\* a closed queue was closed by the producer after it sent every row, a
\* failed ingestion leaves it open, and a receiver out of its loop left a
\* closed and empty queue
C18_ClosedAfterLast ==
    /\ closed => /\ prod.pc = "done" /\ prod.data = NoData
                 /\ prod.count = Len(Source)
                 /\ \A n \in 1..Len(Source) : n \in Taken \/ Holders(n) = 1
    /\ IngestionFailed => ~closed
    /\ \A w \in Workers : wk[w].pc = "exit" => (closed /\ dataList = <<>>)

\* the close is the step of the producer after ReadData returned nil, once;
\* a closed queue stays closed and gets no Record; a receiver leaves its loop
\* in a step that finds the queue closed and empty
C18_CloseStep ==
    /\ (closed' /\ ~closed) =>
          /\ prod.pc = "close" /\ prod'.pc = "done"
          /\ dataList' = dataList /\ wk' = wk
    /\ closed => (closed' /\ Len(dataList') <= Len(dataList))
    /\ \A w \in Workers :
          (wk'[w].pc = "exit" /\ wk[w].pc # "exit") =>
              (closed /\ dataList = <<>>)

\* C18: the queue is closed at most once, by the producer alone and after its
\* last send; nothing is sent on a closed queue, a failed ingestion does not
\* close it, and a receiver ends its loop only on a closed and empty queue.
C18_CloseDiscipline == []C18_ClosedAfterLast /\ [][C18_CloseStep]_vars

\* one receiver has left its loop while the other still writes the last Record
C18_Witness ==
    /\ closed /\ dataList = <<>>
    /\ wk[1].pc = "exit" /\ wk[2].pc = "write"
    /\ prod.count = 3

\* C19: without -srcfile main runs ReadData itself before it starts any
\* receiver: while the queue is not closed after the last row no receiver
\* exists, nothing is taken from the queue and nothing is written; a failed
\* ingestion of the text of -data leaves the destination empty, whatever
\* rows came before the failing one.
C19_InlineReadsFirst ==
    opt.srcFile = "" =>
        /\ ((\E w \in Workers : wk[w].pc # "none") \/ Taken # {} \/ dest # <<>>)
              => (closed /\ prod.pc = "done" /\ prod.count = Len(Source))
        /\ ~closed => Len(dataList) + (IF prod.data.line # 0 THEN 1 ELSE 0)
                          = Cardinality({ n \in 1..prod.count :
                                            n \notin ShortRows })
        /\ IngestionFailed =>
              /\ dest = <<>> /\ Taken = {}
              /\ \A w \in Workers : wk[w].pc = "none"

\* the third row of the text of -data is short: the process has died with two
\* good Records in the queue and nothing written
C19_Witness ==
    /\ opt.srcFile = ""
    /\ IngestionFailed /\ fatal.line = 3
    /\ Len(dataList) = 2 /\ dest = <<>>
    /\ Source[1] \in GoodRows /\ Source[2] \in GoodRows

====
